---- MODULE Spec2Model ----
(***************************************************************************)
(* Model of the STIG / Fleet policy tooling:                               *)
(*   scripts/validate_export.py       validation of exported policy YAML   *)
(*   scripts/extract_fleet_schema.py  schema extraction from Go structs    *)
(*   scripts/fetch_stig.py            parsing of a DISA XCCDF benchmark     *)
(* Each script is a single-threaded run; a run is modelled as a state      *)
(* machine whose steps are the loop iterations and branches of its code.   *)
(***************************************************************************)
EXTENDS Integers, Sequences, FiniteSets, TLC

VARIABLES
    (* validate_export.py *)
    pc,             \* position of main(): "main","load","parse","loop","report","done"
    file,           \* args.file: absent, or its YAML text (parseable or not)
    schema,         \* web/src/schema/fleet-policy-schema.json, or NoSchema
    quiet,          \* args.quiet (store_true: False unless given), read by main's report
    docs,           \* docs = list(yaml.safe_load_all(content))
    di,             \* index of the document the outer loop is at
    ei,             \* index of the entry the inner loop is at
    policy_count,   \* validate_yaml_file.policy_count
    all_errors,     \* validate_yaml_file.all_errors
    exit_code,      \* {} while running, then {status main() returns or sys.exit is given}
    stdout,         \* lines printed so far
    (* extract_fleet_schema.py *)
    spc,            \* position of extract_schema(): "files","base","gitops","done"
    repo,           \* the Fleet checkout: for each source file, absent or its declarations
    fi,             \* index into files_to_parse of the file the loop is at
    structs,        \* schema.structs
    valid_policy_fields,    \* schema.valid_policy_fields
    team_only_fields,       \* schema.team_only_fields
    warned,         \* files reported by print("Warning: ... not found")
    (* fetch_stig.py *)
    xpc,            \* position of parse_disa_xccdf(): "parse","groups","done"
    root,           \* tree.getroot(): the root element of the XCCDF document
    gk,             \* index of the group the loop over root.findall(...) is at
    benchmark       \* the benchmark dict being built

vvars == <<pc, file, schema, quiet, docs, di, ei, policy_count, all_errors,
           exit_code, stdout>>

svars == <<spc, repo, fi, structs, valid_policy_fields, team_only_fields, warned>>

xvars == <<xpc, root, gk, benchmark>>

vars == <<vvars, svars, xvars>>

-----------------------------------------------------------------------------
(* Generic sequence helpers *)

Range(s) == {s[i] : i \in 1..Len(s)}

RECURSIVE SeqsUpTo(_, _)
SeqsUpTo(S, n) ==
    IF n = 0 THEN {<<>>}
    ELSE LET shorter == SeqsUpTo(S, n - 1)
         IN  shorter \cup {Append(s, x) : s \in {t \in shorter : Len(t) = n - 1}, x \in S}

RECURSIVE Concat(_)
Concat(ss) == IF ss = <<>> THEN <<>> ELSE Head(ss) \o Concat(Tail(ss))

Count(s, P(_)) == Cardinality({i \in 1..Len(s) : P(s[i])})

NoDup(s) == \A i, j \in 1..Len(s) : s[i] = s[j] => i = j

-----------------------------------------------------------------------------
(* YAML values as yaml.safe_load builds them *)

Str(s)     == [t |-> "str", s |-> s]
Null       == [t |-> "null"]
Map(items) == [t |-> "map", items |-> items]    \* dict, items in insertion order
List(es)   == [t |-> "list", elems |-> es]

IsDict(v) == v.t = "map"
IsList(v) == v.t = "list"

Keys(m)      == [i \in 1..Len(m.items) |-> m.items[i][1]]
HasKey(m, k) == \E i \in 1..Len(m.items) : m.items[i][1] = k
Get(m, k, default) ==
    IF HasKey(m, k)
    THEN m.items[CHOOSE i \in 1..Len(m.items) : m.items[i][1] = k][2]
    ELSE default

\* str() of a value inside an f-string
Fmt(v) == CASE v.t = "str"  -> v.s
            [] v.t = "null" -> "None"
            [] v.t = "map"  -> "{...}"
            [] v.t = "list" -> "[...]"

-----------------------------------------------------------------------------
(* validate_export.py: the error strings, one constructor per f-string *)

InvalidField(i, name, key) ==
    [tmpl |-> "InvalidField", index |-> i, name |-> name, field |-> key]
MissingRequiredField(i, name, required) ==
    [tmpl |-> "MissingRequired", index |-> i, name |-> name, field |-> required]
RunScriptNotObject(i)       == [tmpl |-> "RunScriptNotObject", index |-> i]
RunScriptMissingPath(i)     == [tmpl |-> "RunScriptMissingPath", index |-> i]
InstallSoftwareNotObject(i) == [tmpl |-> "InstallSoftwareNotObject", index |-> i]
InstallSoftwareInvalidField(i, key) ==
    [tmpl |-> "InstallSoftwareInvalidField", index |-> i, field |-> key]
YamlParseError == [tmpl |-> "YamlParseError"]

valid_isw_fields == {"package_path", "app_store_id", "hash_sha256"}

\* policy.get('name', 'unknown') as it is formatted into the message
PolicyName(policy) == Fmt(Get(policy, "name", Str("unknown")))

\* schema.get("required", [])
Required(sch) == IF "required" \in DOMAIN sch THEN sch["required"] ELSE <<>>

\* for key in policy.keys(): if key not in valid_fields: errors.append(...)
UnknownFieldErrors_FirstOnly(policy, sch, policy_index) ==
    LET valid_fields == Range(sch["_meta"]["valid_fields"])
        bad == SelectSeq(Keys(policy), LAMBDA key : key \notin valid_fields)
    IN  IF bad = <<>> THEN <<>>
        ELSE <<InvalidField(policy_index, PolicyName(policy), bad[1])>>

UnknownFieldErrors(policy, sch, policy_index) ==
    LET valid_fields == Range(sch["_meta"]["valid_fields"])
        bad == SelectSeq(Keys(policy), LAMBDA key : key \notin valid_fields)
    IN  [i \in 1..Len(bad) |-> InvalidField(policy_index, PolicyName(policy), bad[i])]

\* for required in schema.get("required", []): if required not in policy: ...
MissingRequiredErrors_Falsy(policy, sch, policy_index) ==
    LET missing == SelectSeq(Required(sch),
                     LAMBDA required : \/ ~HasKey(policy, required)
                                       \/ Get(policy, required, Null) = Null)
    IN  [i \in 1..Len(missing) |->
            MissingRequiredField(policy_index, PolicyName(policy), missing[i])]

MissingRequiredErrors(policy, sch, policy_index) ==
    LET missing == SelectSeq(Required(sch), LAMBDA required : ~HasKey(policy, required))
    IN  [i \in 1..Len(missing) |->
            MissingRequiredField(policy_index, PolicyName(policy), missing[i])]

\* if "run_script" in policy: ...
RunScriptErrors_NoPathCheck(policy, policy_index) ==
    IF HasKey(policy, "run_script") /\ ~IsDict(Get(policy, "run_script", Null))
    THEN <<RunScriptNotObject(policy_index)>>
    ELSE <<>>

RunScriptErrors(policy, policy_index) ==
    IF HasKey(policy, "run_script")
    THEN LET rs == Get(policy, "run_script", Null)
         IN  IF ~IsDict(rs) THEN <<RunScriptNotObject(policy_index)>>
             ELSE IF ~HasKey(rs, "path") THEN <<RunScriptMissingPath(policy_index)>>
             ELSE <<>>
    ELSE <<>>

\* if "install_software" in policy: ...
InstallSoftwareErrors(policy, policy_index) ==
    IF HasKey(policy, "install_software")
    THEN LET isw == Get(policy, "install_software", Null)
         IN  IF ~IsDict(isw) THEN <<InstallSoftwareNotObject(policy_index)>>
             ELSE LET bad == SelectSeq(Keys(isw), LAMBDA key : key \notin valid_isw_fields)
                  IN  [i \in 1..Len(bad) |->
                          InstallSoftwareInvalidField(policy_index, bad[i])]
    ELSE <<>>

\* the early-return variant: stop at the first check that finds something
validate_policy_FirstFailingCheck(policy, sch, policy_index) ==
    LET u == UnknownFieldErrors(policy, sch, policy_index)
        m == MissingRequiredErrors(policy, sch, policy_index)
        n == RunScriptErrors(policy, policy_index)
               \o InstallSoftwareErrors(policy, policy_index)
    IN  IF u # <<>> THEN u ELSE IF m # <<>> THEN m ELSE n

validate_policy(policy, sch, policy_index) ==
    UnknownFieldErrors(policy, sch, policy_index)
      \o MissingRequiredErrors(policy, sch, policy_index)
      \o RunScriptErrors(policy, policy_index)
      \o InstallSoftwareErrors(policy, policy_index)

-----------------------------------------------------------------------------
(* Inputs of a validation run *)

MaxDocs    == 2     \* YAML documents in the input file
MaxEntries == 2     \* entries in the input file, over all its documents

\* the policy entries the input files are built from
PolicySet ==
    { Map(<< <<"name", Str("x")>>, <<"query", Str("SELECT 1")>>,
             <<"fix_script", Str("a.sh")>> >>),
      Map(<< <<"query", Str("SELECT 1")>> >>),
      Map(<< <<"name", Str("x")>>, <<"query", Str("q")>>,
             <<"run_script", Str("not-an-object")>> >>),
      Map(<< <<"name", Null>>, <<"run_script", Map(<<>>)>>, <<"tags", List(<<>>)>>,
             <<"install_software", Null>>, <<"severity", Str("high")>> >>),
      Map(<< <<"name", Str("y")>>, <<"query", Str("q")>>,
             <<"run_script", Map(<< <<"path", Str("a.sh")>> >>)>>,
             <<"install_software",
               Map(<< <<"package_path", Str("p.yml")>>, <<"url", Str("u")>>,
                      <<"hash_sha256", Str("h")>>, <<"version", Null>> >>)>> >>),
      Map(<< <<"name", Str("z")>>, <<"query", Str("q")>>,
             <<"description", Str("d")>>,
             <<"run_script", Map(<< <<"path", Str("b.sh")>> >>)>> >>) }

\* what a list document may hold besides policies
StrayEntries == {Str("stray")}

\* policies = doc if isinstance(doc, list) else [doc]
PoliciesOf(doc) == IF IsList(doc) THEN doc.elems ELSE <<doc>>

\* a document of the stream: empty (None), a bare scalar, one mapping, or a list
DocsWith(n) ==
    IF n = 0 THEN {Null}
    ELSE {List(es) : es \in {t \in SeqsUpTo(PolicySet \cup StrayEntries, n) : Len(t) = n}}
         \cup (IF n = 1 THEN PolicySet \cup {Str("scalar")} ELSE {})

RECURSIVE Streams(_, _)
Streams(d, n) ==
    IF d = 0 THEN {<<>>}
    ELSE {<<>>} \cup
         UNION { UNION { {<<doc>> \o rest : rest \in Streams(d - 1, n - k)}
                         : doc \in DocsWith(k) }
                 : k \in 0..n }

NoFile      == [exists |-> FALSE]
Unparseable == [exists |-> TRUE, yaml |-> "error"]
FileSet     ==
    {NoFile, Unparseable}
      \cup {[exists |-> TRUE, yaml |-> "ok", docs |-> ds] : ds \in Streams(MaxDocs, MaxEntries)}

NoSchema == [exists |-> FALSE]

\* the artifact generate_typescript_schema writes: "required" and _meta.valid_fields
SchemaFile(valid, required) ==
    ("exists" :> TRUE) @@ ("required" :> required)
       @@ ("_meta" :> [valid_fields |-> valid])

SchemaSet ==
    { SchemaFile(<<"name", "query", "description", "run_script">>, <<"name", "query">>),
      SchemaFile(<<"name", "query", "description", "run_script", "install_software",
                   "run_script">>, <<"name", "query">>),
      ("exists" :> TRUE) @@ ("_meta" :> [valid_fields |-> <<>>]) }

Running == {}     \* exit_code while the process has not exited

-----------------------------------------------------------------------------
(* validate_export.py: validate_yaml_file and main *)

\* all_errors.extend(errors)
ExtendErrors(errors_so_far, errors) == errors_so_far \o errors

\* policy_count += 1
NextPolicyCount_PerDocument(count, entry_index) == entry_index

NextPolicyCount(count, entry_index) == count + 1

\* what main() prints once validate_yaml_file has returned
ReportLines(count, errors, q) ==
    (IF ~q THEN <<[line |-> "Validated", n |-> count]>> ELSE <<>>)
      \o (IF errors # <<>>
          THEN <<[line |-> "Found", n |-> Len(errors)]>>
                 \o [i \in 1..Len(errors) |-> [line |-> "bullet", error |-> errors[i]]]
          ELSE IF ~q THEN <<[line |-> "AllValid"]>> ELSE <<>>)

\* what main() returns once validate_yaml_file has returned
ReportStatus_QuietIsSuccess(errors, q) == IF errors # <<>> /\ ~q THEN 1 ELSE 0

ReportStatus(errors, q) == IF errors # <<>> THEN 1 ELSE 0

\* the YAMLError handler of validate_yaml_file: return 0, [f"YAML parse error: {e}"]
ParseFailure == <<0, <<YamlParseError>> >>

Init ==
    /\ pc = "main"
    /\ file \in FileSet
    /\ schema \in SchemaSet \cup {NoSchema}
    /\ quiet = FALSE
    /\ docs = <<>>
    /\ di = 1
    /\ ei = 1
    /\ policy_count = 0
    /\ all_errors = <<>>
    /\ exit_code = Running
    /\ stdout = <<>>
    /\ spc = "idle"
    /\ repo = <<>>
    /\ fi = 1
    /\ structs = <<>>
    /\ valid_policy_fields = <<>>
    /\ team_only_fields = <<>>
    /\ warned = <<>>
    /\ xpc = "idle"
    /\ root = <<>>
    /\ gk = 1
    /\ benchmark = <<>>

\* main: if not args.file.exists(): print; return 1
FileNotFound ==
    /\ pc = "main"
    /\ ~file.exists
    /\ stdout' = Append(stdout, [line |-> "FileNotFound"])
    /\ exit_code' = {1}
    /\ pc' = "done"
    /\ UNCHANGED <<file, schema, quiet, docs, di, ei, policy_count, all_errors>>
    /\ UNCHANGED <<svars, xvars>>

\* load_schema: if not schema_path.exists(): print; print; sys.exit(1)
SchemaNotFound ==
    /\ pc = "main"
    /\ file.exists
    /\ ~schema.exists
    /\ stdout' = stdout \o <<[line |-> "SchemaNotFound"], [line |-> "RunExtract"]>>
    /\ exit_code' = {1}
    /\ pc' = "done"
    /\ UNCHANGED <<file, schema, quiet, docs, di, ei, policy_count, all_errors>>
    /\ UNCHANGED <<svars, xvars>>

\* validate_yaml_file: yaml.safe_load_all raises YAMLError
ReadYamlError ==
    /\ pc = "main"
    /\ file.exists
    /\ schema.exists
    /\ file.yaml = "error"
    /\ policy_count' = ParseFailure[1]
    /\ all_errors' = ParseFailure[2]
    /\ pc' = "report"
    /\ UNCHANGED <<file, schema, quiet, docs, di, ei, exit_code, stdout>>
    /\ UNCHANGED <<svars, xvars>>

\* validate_yaml_file: docs = list(yaml.safe_load_all(content))
ReadYaml ==
    /\ pc = "main"
    /\ file.exists
    /\ schema.exists
    /\ file.yaml = "ok"
    /\ docs' = file.docs
    /\ di' = 1
    /\ ei' = 1
    /\ pc' = "loop"
    /\ UNCHANGED <<file, schema, quiet, policy_count, all_errors, exit_code, stdout>>
    /\ UNCHANGED <<svars, xvars>>

\* for doc in docs: if doc is None: continue
SkipEmptyDoc ==
    /\ pc = "loop"
    /\ di <= Len(docs)
    /\ docs[di] = Null
    /\ di' = di + 1
    /\ ei' = 1
    /\ UNCHANGED <<pc, file, schema, quiet, docs, policy_count, all_errors,
                   exit_code, stdout>>
    /\ UNCHANGED <<svars, xvars>>

\* for policy in policies: if not isinstance(policy, dict): continue
SkipNonMapping ==
    /\ pc = "loop"
    /\ di <= Len(docs)
    /\ docs[di] # Null
    /\ ei <= Len(PoliciesOf(docs[di]))
    /\ ~IsDict(PoliciesOf(docs[di])[ei])
    /\ ei' = ei + 1
    /\ UNCHANGED <<pc, file, schema, quiet, docs, di, policy_count, all_errors,
                   exit_code, stdout>>
    /\ UNCHANGED <<svars, xvars>>

\* policy_count += 1; errors = validate_policy(...); all_errors.extend(errors)
ValidateEntry ==
    /\ pc = "loop"
    /\ di <= Len(docs)
    /\ docs[di] # Null
    /\ ei <= Len(PoliciesOf(docs[di]))
    /\ IsDict(PoliciesOf(docs[di])[ei])
    /\ LET policy == PoliciesOf(docs[di])[ei]
           count  == NextPolicyCount(policy_count, ei)
       IN  /\ policy_count' = count
           /\ all_errors' = ExtendErrors(all_errors, validate_policy(policy, schema, count))
    /\ ei' = ei + 1
    /\ UNCHANGED <<pc, file, schema, quiet, docs, di, exit_code, stdout>>
    /\ UNCHANGED <<svars, xvars>>

\* the inner loop is exhausted: on to the next document
NextDoc ==
    /\ pc = "loop"
    /\ di <= Len(docs)
    /\ docs[di] # Null
    /\ ei > Len(PoliciesOf(docs[di]))
    /\ di' = di + 1
    /\ ei' = 1
    /\ UNCHANGED <<pc, file, schema, quiet, docs, policy_count, all_errors,
                   exit_code, stdout>>
    /\ UNCHANGED <<svars, xvars>>

\* return policy_count, all_errors
ReturnCounts ==
    /\ pc = "loop"
    /\ di > Len(docs)
    /\ pc' = "report"
    /\ UNCHANGED <<file, schema, quiet, docs, di, ei, policy_count, all_errors,
                   exit_code, stdout>>
    /\ UNCHANGED <<svars, xvars>>

\* main: print the summary and the errors, return 1 or 0; args.quiet is read here
Report ==
    /\ pc = "report"
    /\ \E q \in BOOLEAN :
          /\ quiet' = q
          /\ stdout' = stdout \o ReportLines(policy_count, all_errors, q)
          /\ exit_code' = {ReportStatus(all_errors, q)}
    /\ pc' = "done"
    /\ UNCHANGED <<file, schema, docs, di, ei, policy_count, all_errors>>
    /\ UNCHANGED <<svars, xvars>>

Next ==
    \/ FileNotFound
    \/ SchemaNotFound
    \/ ReadYamlError
    \/ ReadYaml
    \/ SkipEmptyDoc
    \/ SkipNonMapping
    \/ ValidateEntry
    \/ NextDoc
    \/ ReturnCounts
    \/ Report

Spec == Init /\ [][Next]_vars

-----------------------------------------------------------------------------
(* Properties of the validator (validate_export.py) *)

\* the entries of the input in document order, and the mappings among them
EntriesOfDoc(doc) ==
    IF doc = Null THEN <<>> ELSE IF IsList(doc) THEN doc.elems ELSE <<doc>>

FlatEntries(ds) == Concat([i \in 1..Len(ds) |-> EntriesOfDoc(ds[i])])

MappingEntries(ds) == SelectSeq(FlatEntries(ds), IsDict)

KeySet(m) == Range(Keys(m))

ValidFieldNames == Range(schema["_meta"]["valid_fields"])

RequiredFieldNames == Range(Required(schema))

\* every key that occurs in an input or in a schema
KeyUniverse ==
    UNION {KeySet(p) : p \in PolicySet}
      \cup UNION {Range(sch["_meta"]["valid_fields"]) \cup Range(Required(sch))
                    : sch \in SchemaSet}

SubKeyUniverse ==
    valid_isw_fields \cup {"path"} \cup
    UNION { UNION {KeySet(p.items[i][2]) : i \in {j \in 1..Len(p.items) : IsDict(p.items[j][2])}}
              : p \in PolicySet }

\* entries are being or have been validated against a loaded schema
Validating == pc \in {"loop", "report", "done"} /\ file.exists /\ schema.exists
                 /\ file.yaml = "ok"

\* validate_yaml_file has returned for a parseable input
Validated == pc \in {"report", "done"} /\ file.exists /\ schema.exists
                 /\ file.yaml = "ok"

\* the k-th mapping entry of the input, for k among the entries validated so far
Entry(k) == MappingEntries(file.docs)[k]

Processed == 1..(IF policy_count <= Len(MappingEntries(file.docs))
                 THEN policy_count ELSE Len(MappingEntries(file.docs)))

ErrorsOf(k) == {i \in 1..Len(all_errors) :
                   "index" \in DOMAIN all_errors[i] /\ all_errors[i].index = k}

NumErrors(k, tmpl, key) ==
    Cardinality({i \in ErrorsOf(k) :
                    /\ all_errors[i].tmpl = tmpl
                    /\ "field" \in DOMAIN all_errors[i] => all_errors[i].field = key})

NumTmpl(k, tmpl) == Cardinality({i \in ErrorsOf(k) : all_errors[i].tmpl = tmpl})

\* C1: for every validated entry and every key, there is exactly one UnknownField
\* ("Invalid field") violation if the key is on the entry and not in
\* validFieldNames, and none otherwise.
C1_UnknownFieldPerInvalidKey ==
    Validating =>
        \A k \in Processed :
            LET keys    == KeySet(Entry(k))
                unknown == {i \in ErrorsOf(k) : all_errors[i].tmpl = "InvalidField"}
            IN  /\ \A key \in KeyUniverse :
                      Cardinality({i \in unknown : all_errors[i].field = key}) =
                          IF key \in keys /\ key \notin ValidFieldNames THEN 1 ELSE 0
                /\ Cardinality(unknown) = Cardinality(keys \ ValidFieldNames)

\* the scenario of the claim: {name, query, fix_script} against
\* [name, query, description, run_script] gives one UnknownField, for fix_script
C1_Witness ==
    /\ Validated
    /\ schema["_meta"]["valid_fields"] = <<"name", "query", "description", "run_script">>
    /\ \E k \in Processed :
          /\ Keys(Entry(k)) = <<"name", "query", "fix_script">>
          /\ NumTmpl(k, "InvalidField") = 1
          /\ NumErrors(k, "InvalidField", "fix_script") = 1
          /\ NumTmpl(k, "MissingRequired") = 0

\* C2: for every validated entry and every required name, there is exactly one
\* MissingRequired violation if the name is not a key of the entry, and none if
\* it is a key, whatever its value.
C2_MissingRequiredPerAbsentName ==
    Validating =>
        \A k \in Processed :
            LET keys    == KeySet(Entry(k))
                missing == {i \in ErrorsOf(k) : all_errors[i].tmpl = "MissingRequired"}
            IN  /\ \A key \in KeyUniverse :
                      Cardinality({i \in missing : all_errors[i].field = key}) =
                          IF key \in RequiredFieldNames /\ key \notin keys THEN 1 ELSE 0
                /\ Cardinality(missing) = Cardinality(RequiredFieldNames \ keys)

\* the scenario of the claim ({query} gives one MissingRequired, for name), and an
\* entry whose name is null, which counts as present
C2_Witness ==
    /\ Validated
    /\ Required(schema) = <<"name", "query">>
    /\ \E k, n \in Processed :
          /\ Keys(Entry(k)) = <<"query">>
          /\ NumTmpl(k, "MissingRequired") = 1
          /\ NumErrors(k, "MissingRequired", "name") = 1
          /\ HasKey(Entry(n), "name")
          /\ Get(Entry(n), "name", Str("")) = Null
          /\ NumErrors(n, "MissingRequired", "name") = 0

\* C3: run_script / install_software that is no mapping gives exactly one
\* MalformedNested violation for that field; a run_script mapping gives one
\* violation if 'path' is absent and none if present; an install_software mapping
\* gives one UnknownNestedField per sub-key outside the allow-list and none
\* otherwise; an absent nested field gives no nested violation.
C3_NestedObjectChecks ==
    Validating =>
        \A k \in Processed :
            LET e   == Entry(k)
                rs  == Get(e, "run_script", Null)
                isw == Get(e, "install_software", Null)
                hasRs  == HasKey(e, "run_script")
                hasIsw == HasKey(e, "install_software")
            IN  /\ NumTmpl(k, "RunScriptNotObject")
                      = IF hasRs /\ ~IsDict(rs) THEN 1 ELSE 0
                /\ NumTmpl(k, "RunScriptMissingPath")
                      = IF hasRs /\ IsDict(rs) /\ "path" \notin KeySet(rs) THEN 1 ELSE 0
                /\ NumTmpl(k, "InstallSoftwareNotObject")
                      = IF hasIsw /\ ~IsDict(isw) THEN 1 ELSE 0
                /\ \A sub \in SubKeyUniverse :
                      NumErrors(k, "InstallSoftwareInvalidField", sub) =
                          IF /\ hasIsw /\ IsDict(isw) /\ sub \in KeySet(isw)
                             /\ sub \notin {"package_path", "app_store_id", "hash_sha256"}
                          THEN 1 ELSE 0
                /\ NumTmpl(k, "InstallSoftwareInvalidField") =
                      IF hasIsw /\ IsDict(isw)
                      THEN Cardinality(KeySet(isw)
                              \ {"package_path", "app_store_id", "hash_sha256"})
                      ELSE 0

\* the scenario of the claim (run_script: "not-an-object") next to an entry whose
\* install_software mapping has two sub-keys outside the allow-list
C3_Witness ==
    /\ Validated
    /\ \E k, n \in Processed :
          /\ Get(Entry(k), "run_script", Null) = Str("not-an-object")
          /\ NumTmpl(k, "RunScriptNotObject") = 1
          /\ IsDict(Get(Entry(n), "install_software", Null))
          /\ IsDict(Get(Entry(n), "run_script", Null))
          /\ NumTmpl(n, "InstallSoftwareInvalidField") = 2
          /\ NumTmpl(n, "RunScriptMissingPath") = 0

\* the violations the three checks of the validator find on entry e, the k-th
ExpectedViolations(e, k) ==
    LET rs  == Get(e, "run_script", Null)
        isw == Get(e, "install_software", Null)
    IN  {InvalidField(k, PolicyName(e), key) : key \in KeySet(e) \ ValidFieldNames}
          \cup {MissingRequiredField(k, PolicyName(e), r)
                  : r \in RequiredFieldNames \ KeySet(e)}
          \cup (IF ~HasKey(e, "run_script") THEN {}
                ELSE IF ~IsDict(rs) THEN {RunScriptNotObject(k)}
                ELSE IF "path" \notin KeySet(rs) THEN {RunScriptMissingPath(k)}
                ELSE {})
          \cup (IF ~HasKey(e, "install_software") THEN {}
                ELSE IF ~IsDict(isw) THEN {InstallSoftwareNotObject(k)}
                ELSE {InstallSoftwareInvalidField(k, sub)
                        : sub \in KeySet(isw) \ valid_isw_fields})

\* position of a violation's kind in the order of the checks
Rank(v) == CASE v.tmpl = "InvalidField"    -> 1
             [] v.tmpl = "MissingRequired" -> 2
             [] OTHER                      -> 3

\* C4: the violation list is the concatenation, in entry order, of every entry's
\* violations; within an entry UnknownField come first, then MissingRequired, then
\* the nested-object violations; nothing found is dropped, and once
\* validate_yaml_file has returned every mapping entry has been checked.
C4_ExhaustiveAndOrdered ==
    Validating =>
        /\ \A i, j \in 1..Len(all_errors) :
              i < j => /\ all_errors[i].index <= all_errors[j].index
                       /\ all_errors[i].index = all_errors[j].index
                            => Rank(all_errors[i]) <= Rank(all_errors[j])
        /\ NoDup(all_errors)
        /\ \A k \in Processed :
              {all_errors[i] : i \in ErrorsOf(k)} = ExpectedViolations(Entry(k), k)
        /\ Range(all_errors) \subseteq
              UNION {ExpectedViolations(Entry(k), k) : k \in Processed}
        /\ pc \in {"report", "done"} => policy_count = Len(MappingEntries(file.docs))

\* two entries with violations of all three stages have been validated
C4_Witness ==
    /\ Validated
    /\ policy_count = 2
    /\ \A k \in 1..2 : \E r \in 1..3 : \E i \in ErrorsOf(k) : Rank(all_errors[i]) = r
    /\ \E k \in 1..2 : \A r \in 1..3 : \E i \in ErrorsOf(k) : Rank(all_errors[i]) = r

\* number of mapping entries of a document stream, document by document
RECURSIVE NumMappings(_)
NumMappings(ds) ==
    IF ds = <<>> THEN 0
    ELSE LET doc == Head(ds)
             here == IF doc = Null THEN 0
                     ELSE IF IsList(doc)
                          THEN Cardinality({i \in 1..Len(doc.elems) : IsDict(doc.elems[i])})
                     ELSE IF IsDict(doc) THEN 1 ELSE 0
         IN  here + NumMappings(Tail(ds))

\* C5: both input shapes are flattened in document order; empty documents and
\* non-mapping entries give no violation and are not counted: the returned count
\* is the number of mapping entries, and a violation's index is the 1-based
\* position of its entry among the mapping entries of all documents.
C5_FlattenAndCount ==
    /\ Validating => policy_count <= NumMappings(file.docs)
    /\ Validated => policy_count = NumMappings(file.docs)
    /\ Validating =>
          \A i \in 1..Len(all_errors) :
              LET k == all_errors[i].index
              IN  /\ k \in 1..policy_count
                  /\ k <= Len(MappingEntries(file.docs))
                  /\ all_errors[i] \in ExpectedViolations(MappingEntries(file.docs)[k], k)

\* a list document holding only a stray scalar, then a single-mapping document:
\* the mapping is entry 1 although it is the second entry of the input
C5_Witness ==
    /\ Validated
    /\ Len(file.docs) = 2
    /\ IsList(file.docs[1])
    /\ Len(file.docs[1].elems) = 1
    /\ ~IsDict(file.docs[1].elems[1])
    /\ IsDict(file.docs[2])
    /\ policy_count = 1
    /\ ErrorsOf(1) # {}
    /\ \A i \in ErrorsOf(1) : all_errors[i] \in ExpectedViolations(file.docs[2], 1)

Bullets == SelectSeq(stdout, LAMBDA l : l.line = "bullet")

\* C6: a run over an existing input file (with the schema loaded) exits 0 iff the
\* violation list is empty and non-zero otherwise, and then every violation is
\* printed; an unparseable input is a run with exactly one parse-error violation.
C6_ExitStatus ==
    (pc = "done" /\ file.exists /\ schema.exists) =>
        /\ exit_code \in {{0}, {1}}
        /\ exit_code = {0} <=> all_errors = <<>>
        /\ all_errors # <<>> =>
              [i \in 1..Len(Bullets) |-> Bullets[i].error] = all_errors
        /\ file.yaml = "error" => all_errors = <<YamlParseError>> /\ exit_code = {1}

\* a quiet run that found several violations exits 1 and has printed them
C6_Witness ==
    /\ pc = "done"
    /\ file.exists
    /\ schema.exists
    /\ quiet
    /\ Len(all_errors) >= 2
    /\ exit_code = {1}
    /\ Len(Bullets) = Len(all_errors)

-----------------------------------------------------------------------------
(* extract_fleet_schema.py: Go source text *)

\* A json struct tag is held as its pieces of text, "," being the separator the
\* code splits on; a comment is held as its words (joined by single blanks).
RECURSIVE Join(_)
Join(pieces) == IF pieces = <<>> THEN "" ELSE Head(pieces) \o Join(Tail(pieces))

\* json_tag.split(',')
RECURSIVE Split(_)
Split(tag) ==
    IF \E i \in 1..Len(tag) : tag[i] = ","
    THEN LET i == CHOOSE j \in 1..Len(tag) :
                     tag[j] = "," /\ \A h \in 1..(j - 1) : tag[h] # ","
         IN  <<Join(SubSeq(tag, 1, i - 1))>> \o Split(SubSeq(tag, i + 1, Len(tag)))
    ELSE <<Join(tag)>>

\* str.lower() on the words comments are made of
Lower(word) == CASE word = "Team"     -> "team"
                 [] word = "Policies" -> "policies"
                 [] word = "Teams"    -> "teams"
                 [] word = "macOS"    -> "macos"
                 [] word = "STIG"     -> "stig"
                 [] OTHER             -> word

\* 'team polic' in comment.lower()
ContainsTeamPolic(words) ==
    \E i \in 1..(Len(words) - 1) :
        /\ Lower(words[i]) = "team"
        /\ Lower(words[i + 1]) \in {"policy", "policies"}

\* 'team' in f.description.lower()
ContainsTeam(words) ==
    \E i \in 1..Len(words) : Lower(words[i]) \in {"team", "teams"}

NoComment == [none |-> TRUE]             \* the optional regex group did not match
Comment(words) == [words |-> words]
IsNoComment(c) == "none" \in DOMAIN c

\* the lines of a struct body, by what the code tests on them
BlankLine   == [text |-> "blank"]                    \* not line
CommentLine == [text |-> "comment"]                  \* line.startswith('//')
EmbeddedLine(ref) ==                                 \* '.' in line and '`' not in line
    [text |-> "code", dot |-> TRUE, backtick |-> FALSE, fits |-> FALSE, raw |-> ref]
UntaggedLine(raw) ==                                 \* no tag: field_pattern fails
    [text |-> "code", dot |-> FALSE, backtick |-> FALSE, fits |-> FALSE, raw |-> raw]
FieldLine(field_name, go_type, dotted, json_tag, comment) ==   \* field_pattern matches
    [text |-> "code", dot |-> dotted, backtick |-> TRUE, fits |-> Len(json_tag) > 0,
     field_name |-> field_name, go_type |-> go_type, json_tag |-> json_tag,
     comment |-> comment]

-----------------------------------------------------------------------------
(* extract_fleet_schema.py: parse_go_struct *)

SchemaField(name, json_name, go_type, description, optional, team_only) ==
    [name |-> name, json_name |-> json_name, go_type |-> go_type,
     description |-> description, optional |-> optional, team_only |-> team_only]

\* optional = 'omitempty' in json_parts or json_tag == '-'
Optional_LastFlagOnly(json_tag) ==
    Split(json_tag)[Len(Split(json_tag))] = "omitempty" \/ Join(json_tag) = "-"

Optional(json_tag) ==
    "omitempty" \in Range(Split(json_tag)) \/ Join(json_tag) = "-"

\* team_only = comment and 'team polic' in comment.lower() if comment else False
TeamOnly(comment) ==
    IF IsNoComment(comment) \/ comment.words = <<>> THEN FALSE
    ELSE ContainsTeamPolic(comment.words)

\* comment or ""
Description(comment) == IF IsNoComment(comment) THEN <<>> ELSE comment.words

\* one iteration of "for line in body.split('\n')": the fields it appends
ParseLine_KeepSentinel(line) ==
    IF line.text \in {"blank", "comment"} THEN <<>>
    ELSE IF line.dot /\ ~line.backtick
    THEN <<SchemaField("[embedded: " \o line.raw \o "]", "", line.raw,
                       <<"Embedded", "struct", "fields">>, FALSE, FALSE)>>
    ELSE IF line.fits
    THEN <<SchemaField(line.field_name, Split(line.json_tag)[1], line.go_type,
                       Description(line.comment), Optional(line.json_tag),
                       TeamOnly(line.comment))>>
    ELSE <<>>

ParseLine(line) ==
    IF line.text \in {"blank", "comment"} THEN <<>>
    ELSE IF line.dot /\ ~line.backtick
    THEN <<SchemaField("[embedded: " \o line.raw \o "]", "", line.raw,
                       <<"Embedded", "struct", "fields">>, FALSE, FALSE)>>
    ELSE IF line.fits
    THEN LET json_parts == Split(line.json_tag)
             json_name  == json_parts[1]
         IN  IF json_name = "-" THEN <<>>
             ELSE <<SchemaField(line.field_name, json_name, line.go_type,
                                Description(line.comment), Optional(line.json_tag),
                                TeamOnly(line.comment))>>
    ELSE <<>>

None == [none |-> TRUE]
IsNone(x) == "none" \in DOMAIN x

\* content: the declarations of one file, struct name -> declared or not, and body
parse_go_struct(content, struct_name, file_path) ==
    IF ~content[struct_name].declared THEN None
    ELSE [name |-> struct_name, source_file |-> file_path,
          fields |-> Concat([i \in 1..Len(content[struct_name].body) |->
                               ParseLine(content[struct_name].body[i])])]

-----------------------------------------------------------------------------
(* extract_fleet_schema.py: extract_schema *)

files_to_parse ==
    << [rel_path |-> "server/fleet/policies.go",
        structs  |-> <<"PolicySpec", "PolicyData", "Policy">>],
       [rel_path |-> "pkg/spec/gitops.go",
        structs  |-> <<"GitOpsPolicySpec", "PolicyRunScript", "PolicyInstallSoftware">>] >>

\* for struct_name in structs: parsed = parse_go_struct(...); if parsed: store it
RECURSIVE StoreParsed_StopAtMissing(_, _, _, _)
StoreParsed_StopAtMissing(acc, content, names, rel_path) ==
    IF names = <<>> THEN acc
    ELSE LET parsed == parse_go_struct(content, Head(names), rel_path)
         IN  IF IsNone(parsed) THEN acc
             ELSE StoreParsed_StopAtMissing(
                      [n \in DOMAIN acc \cup {Head(names)} |->
                          IF n = Head(names) THEN parsed ELSE acc[n]],
                      content, Tail(names), rel_path)

RECURSIVE StoreParsed(_, _, _, _)
StoreParsed(acc, content, names, rel_path) ==
    IF names = <<>> THEN acc
    ELSE LET parsed == parse_go_struct(content, Head(names), rel_path)
             stored == IF IsNone(parsed) THEN acc
                       ELSE [n \in DOMAIN acc \cup {Head(names)} |->
                                IF n = Head(names) THEN parsed ELSE acc[n]]
         IN  StoreParsed(stored, content, Tail(names), rel_path)

\* body of "for f in policy_spec.fields"
AppendBase_DescriptionHeuristic(acc, f) ==
    IF f.json_name # "" /\ f.json_name # "-"
    THEN [valid |-> Append(acc.valid, f.json_name),
          team  |-> IF f.team_only \/ ContainsTeam(f.description)
                    THEN Append(acc.team, f.json_name) ELSE acc.team]
    ELSE acc

AppendBase(acc, f) ==
    IF f.json_name # "" /\ f.json_name # "-"
    THEN [valid |-> Append(acc.valid, f.json_name),
          team  |-> IF f.team_only THEN Append(acc.team, f.json_name) ELSE acc.team]
    ELSE acc

\* body of "for f in gitops_spec.fields"
AppendGitops_TeamUnguarded(acc, f) ==
    [valid |-> IF f.json_name # "" /\ f.json_name # "-"
               THEN Append(acc.valid, f.json_name) ELSE acc.valid,
     team  |-> IF f.team_only \/ ContainsTeam(f.description)
               THEN Append(acc.team, f.json_name) ELSE acc.team]

AppendGitops(acc, f) ==
    IF f.json_name # "" /\ f.json_name # "-"
    THEN [valid |-> Append(acc.valid, f.json_name),
          team  |-> IF f.team_only \/ ContainsTeam(f.description)
                    THEN Append(acc.team, f.json_name) ELSE acc.team]
    ELSE acc

\* for f in policy_spec.fields: ...
RECURSIVE ForEachBaseField(_, _)
ForEachBaseField(acc, fields) ==
    IF fields = <<>> THEN acc
    ELSE ForEachBaseField(AppendBase(acc, Head(fields)), Tail(fields))

\* for f in gitops_spec.fields: ...
RECURSIVE ForEachGitopsField(_, _)
ForEachGitopsField(acc, fields) ==
    IF fields = <<>> THEN acc
    ELSE ForEachGitopsField(AppendGitops(acc, Head(fields)), Tail(fields))

-----------------------------------------------------------------------------
(* Inputs of an extraction run *)

MaxLines == 3       \* lines of the PolicySpec and GitOpsPolicySpec bodies together

LineSet ==
    { CommentLine,
      EmbeddedLine("fleet.PolicySpec"),
      UntaggedLine("mu sync.Mutex"),
      FieldLine("Name", "string", FALSE, <<"name">>, NoComment),
      FieldLine("Query", "string", FALSE, <<"query", ",", "string", ",", "omitempty">>,
                Comment(<<"osquery", "SQL">>)),
      FieldLine("Internal", "*fleet.Software", TRUE, <<"-">>,
                Comment(<<"team", "policies", "only">>)),
      FieldLine("Anonymous", "string", FALSE, <<",", "omitempty", ",", "string">>,
                Comment(<<"Teams", "only">>)),
      FieldLine("RunScript", "*PolicyRunScript", FALSE, <<"run_", "script">>,
                Comment(<<"Team", "only">>)),
      FieldLine("CalendarEventsEnabled", "bool", FALSE,
                <<"calendar_events_enabled", ",", "omitempty">>,
                Comment(<<"only", "for", "Team", "Policies">>)),
      FieldLine("Hidden", "string", FALSE, <<"-", ",", "omitempty">>, Comment(<<>>)) }

RECURSIVE BodiesOfLen(_)
BodiesOfLen(n) ==
    IF n = 0 THEN {<<>>}
    ELSE {Append(b, line) : b \in BodiesOfLen(n - 1), line \in LineSet}

NoDecl     == [declared |-> FALSE]
Decl(body) == [declared |-> TRUE, body |-> body]

MissingFile == [exists |-> FALSE]
SourceFile(content) == [exists |-> TRUE, content |-> content]

OtherBody == <<BlankLine, FieldLine("ID", "uint", FALSE, <<"id">>, NoComment)>>

PoliciesGo(spec_decl, data_decl) ==
    SourceFile([PolicySpec |-> spec_decl, PolicyData |-> data_decl,
                Policy |-> Decl(OtherBody)])

GitopsGo(spec_decl, script_decl) ==
    SourceFile([GitOpsPolicySpec |-> spec_decl, PolicyRunScript |-> script_decl,
                PolicyInstallSoftware |-> Decl(OtherBody)])

\* server/fleet/policies.go with n lines in the body of PolicySpec
PoliciesGoWith(n) ==
    {PoliciesGo(Decl(b), Decl(OtherBody)) : b \in BodiesOfLen(n)}
      \cup (IF n = 0
            THEN {MissingFile, PoliciesGo(NoDecl, Decl(OtherBody)),
                  PoliciesGo(Decl(<<>>), NoDecl)}
            ELSE {})

\* pkg/spec/gitops.go with n lines in the body of GitOpsPolicySpec
GitopsGoWith(n) ==
    {GitopsGo(Decl(b), Decl(OtherBody)) : b \in BodiesOfLen(n)}
      \cup (IF n = 0
            THEN {MissingFile, GitopsGo(NoDecl, Decl(OtherBody)),
                  GitopsGo(Decl(<<>>), NoDecl)}
            ELSE {})

Repo(policies_go, gitops_go) ==
    ("server/fleet/policies.go" :> policies_go) @@ ("pkg/spec/gitops.go" :> gitops_go)

EmptyDict == [n \in {} |-> n]

SchemaInit ==
    /\ spc = "files"
    /\ \E a \in 0..MaxLines :
          \E b \in 0..(MaxLines - a) :
              \E p \in PoliciesGoWith(a), g \in GitopsGoWith(b) : repo = Repo(p, g)
    /\ fi = 1
    /\ structs = EmptyDict
    /\ valid_policy_fields = <<>>
    /\ team_only_fields = <<>>
    /\ warned = <<>>
    /\ pc = "idle"
    /\ file = NoFile
    /\ schema = NoSchema
    /\ quiet = FALSE
    /\ docs = <<>>
    /\ di = 1
    /\ ei = 1
    /\ policy_count = 0
    /\ all_errors = <<>>
    /\ exit_code = Running
    /\ stdout = <<>>
    /\ xpc = "idle"
    /\ root = <<>>
    /\ gk = 1
    /\ benchmark = <<>>

\* if not file_path.exists(): print warning; continue
SourceFileMissing ==
    /\ spc = "files"
    /\ fi <= Len(files_to_parse)
    /\ ~repo[files_to_parse[fi].rel_path].exists
    /\ warned' = Append(warned, files_to_parse[fi].rel_path)
    /\ fi' = fi + 1
    /\ UNCHANGED <<spc, repo, structs, valid_policy_fields, team_only_fields>>
    /\ UNCHANGED <<vvars, xvars>>

\* content = file_path.read_text(); for struct_name in structs: ...
ParseSourceFile ==
    /\ spc = "files"
    /\ fi <= Len(files_to_parse)
    /\ repo[files_to_parse[fi].rel_path].exists
    /\ structs' = StoreParsed(structs, repo[files_to_parse[fi].rel_path].content,
                              files_to_parse[fi].structs, files_to_parse[fi].rel_path)
    /\ fi' = fi + 1
    /\ UNCHANGED <<spc, repo, valid_policy_fields, team_only_fields, warned>>
    /\ UNCHANGED <<vvars, xvars>>

\* if policy_spec: for f in policy_spec.fields: ...
BaseFields ==
    /\ spc = "files"
    /\ fi > Len(files_to_parse)
    /\ "PolicySpec" \in DOMAIN structs
    /\ LET acc == ForEachBaseField(
                      [valid |-> valid_policy_fields, team |-> team_only_fields],
                      structs["PolicySpec"].fields)
       IN  /\ valid_policy_fields' = acc.valid
           /\ team_only_fields' = acc.team
    /\ spc' = "gitops"
    /\ UNCHANGED <<repo, fi, structs, warned>>
    /\ UNCHANGED <<vvars, xvars>>

\* policy_spec is None: the loop over its fields is not entered
NoBaseFields ==
    /\ spc = "files"
    /\ fi > Len(files_to_parse)
    /\ "PolicySpec" \notin DOMAIN structs
    /\ spc' = "gitops"
    /\ UNCHANGED <<repo, fi, structs, valid_policy_fields, team_only_fields, warned>>
    /\ UNCHANGED <<vvars, xvars>>

\* if gitops_spec: for f in gitops_spec.fields: ...; return schema
GitopsFields ==
    /\ spc = "gitops"
    /\ "GitOpsPolicySpec" \in DOMAIN structs
    /\ LET acc == ForEachGitopsField(
                      [valid |-> valid_policy_fields, team |-> team_only_fields],
                      structs["GitOpsPolicySpec"].fields)
       IN  /\ valid_policy_fields' = acc.valid
           /\ team_only_fields' = acc.team
    /\ spc' = "done"
    /\ UNCHANGED <<repo, fi, structs, warned>>
    /\ UNCHANGED <<vvars, xvars>>

\* gitops_spec is None: return schema
NoGitopsFields ==
    /\ spc = "gitops"
    /\ "GitOpsPolicySpec" \notin DOMAIN structs
    /\ spc' = "done"
    /\ UNCHANGED <<repo, fi, structs, valid_policy_fields, team_only_fields, warned>>
    /\ UNCHANGED <<vvars, xvars>>

SchemaNext ==
    \/ SourceFileMissing
    \/ ParseSourceFile
    \/ BaseFields
    \/ NoBaseFields
    \/ GitopsFields
    \/ NoGitopsFields

SchemaSpec == SchemaInit /\ [][SchemaNext]_vars

-----------------------------------------------------------------------------
(* Properties of the schema builder (extract_fleet_schema.py) *)

\* the declarations the checkout holds, by name
Available(struct_name) ==
    \E i \in 1..Len(files_to_parse) :
        /\ struct_name \in Range(files_to_parse[i].structs)
        /\ repo[files_to_parse[i].rel_path].exists
        /\ repo[files_to_parse[i].rel_path].content[struct_name].declared

AllStructNames == UNION {Range(files_to_parse[i].structs) : i \in 1..Len(files_to_parse)}

\* the body of an available declaration, as written in the source file
BodyOf(struct_name) ==
    LET i == CHOOSE j \in 1..Len(files_to_parse) :
                 struct_name \in Range(files_to_parse[j].structs)
    IN  repo[files_to_parse[i].rel_path].content[struct_name].body

\* a line of the fixed shape: identifier, type, json tag, optional comment
IsTaggedLine(line) == line.text = "code" /\ line.backtick /\ line.fits

\* the wire name written in a tagged line: the tag's text up to its first comma
RECURSIVE WireName(_)
WireName(tag) ==
    IF tag = <<>> \/ Head(tag) = "," THEN "" ELSE Head(tag) \o WireName(Tail(tag))

\* the wire names a body declares, in line order, without empty and sentinel ones
DeclaredWireNames(body) ==
    LET tagged == SelectSeq(body, IsTaggedLine)
        names  == [i \in 1..Len(tagged) |-> WireName(tagged[i].json_tag)]
    IN  SelectSeq(names, LAMBDA n : n # "" /\ n # "-")

\* C7: in every Schema, whatever files and declarations are present, every name
\* in team_only_fields is also in valid_policy_fields.
C7_RestrictedSubsetOfValid ==
    Range(team_only_fields) \subseteq Range(valid_policy_fields)

\* a schema with restricted names was built from an extension declaration that
\* also holds a team-marked field without a wire name
C7_Witness ==
    /\ spc = "done"
    /\ team_only_fields # <<>>
    /\ Available("GitOpsPolicySpec")
    /\ \E i \in 1..Len(BodyOf("GitOpsPolicySpec")) :
          LET line == BodyOf("GitOpsPolicySpec")[i]
          IN  /\ IsTaggedLine(line)
              /\ WireName(line.json_tag) = ""
              /\ ContainsTeam(Description(line.comment))

\* C8 (as claimed): valid_policy_fields holds each wire name at most once, a name
\* already present being skipped, and the names of the base declaration come
\* before the names only the extension contributes.
C8_NoDuplicateWireNames ==
    spc = "done" =>
        /\ NoDup(valid_policy_fields)
        /\ Available("PolicySpec") =>
              SubSeq(valid_policy_fields, 1, Len(DeclaredWireNames(BodyOf("PolicySpec"))))
                  = DeclaredWireNames(BodyOf("PolicySpec"))

\* C9: a missing file or declaration never stops the extraction: every
\* declaration that is there is parsed and stored, every missing file is
\* reported and skipped; without PolicySpec and with GitOpsPolicySpec,
\* valid_policy_fields is exactly the extension's non-empty, non-sentinel wire
\* names in field order.
C9_MissingDeclarationsSkipped ==
    /\ spc \in {"gitops", "done"} =>
          /\ DOMAIN structs = {n \in AllStructNames : Available(n)}
          /\ warned = SelectSeq([i \in 1..Len(files_to_parse) |-> files_to_parse[i].rel_path],
                                LAMBDA path : ~repo[path].exists)
    /\ (spc = "done" /\ ~Available("PolicySpec") /\ Available("GitOpsPolicySpec")) =>
          valid_policy_fields = DeclaredWireNames(BodyOf("GitOpsPolicySpec"))

\* policies.go is there without a PolicySpec declaration; its other declarations
\* and the extension were still parsed, and the schema holds the extension's names
C9_Witness ==
    /\ spc = "done"
    /\ repo["server/fleet/policies.go"].exists
    /\ ~Available("PolicySpec")
    /\ "Policy" \in DOMAIN structs
    /\ "GitOpsPolicySpec" \in DOMAIN structs
    /\ Len(valid_policy_fields) >= 2
    /\ Len(valid_policy_fields) < Len(BodyOf("GitOpsPolicySpec"))

\* C10: no parsed declaration holds a field whose wire name is "-", and every
\* element of valid_policy_fields is a non-empty wire name other than "-".
C10_SentinelNeverMaterialized ==
    /\ \A n \in DOMAIN structs :
          \A i \in 1..Len(structs[n].fields) : structs[n].fields[i].json_name # "-"
    /\ \A i \in 1..Len(valid_policy_fields) :
          valid_policy_fields[i] # "" /\ valid_policy_fields[i] # "-"

\* the extension was written with a sentinel-tagged line and an embedded
\* reference; the embedded pseudo-field was stored, and neither is a valid name
C10_Witness ==
    /\ spc = "done"
    /\ Available("GitOpsPolicySpec")
    /\ \E i \in 1..Len(BodyOf("GitOpsPolicySpec")) :
          LET line == BodyOf("GitOpsPolicySpec")[i]
          IN  IsTaggedLine(line) /\ WireName(line.json_tag) = "-"
    /\ \E i \in 1..Len(structs["GitOpsPolicySpec"].fields) :
          structs["GitOpsPolicySpec"].fields[i].json_name = ""
    /\ valid_policy_fields # <<>>

\* the lines of a body that yield a field: embedded references, and lines of the
\* fixed shape whose wire name is not the sentinel
YieldsField(line) ==
    /\ line.text = "code"
    /\ \/ line.dot /\ ~line.backtick
       \/ IsTaggedLine(line) /\ WireName(line.json_tag) # "-"

\* "omitempty" stands among the flags of the tag, i.e. after its first comma
HasOmitFlag(tag) ==
    \E i \in 2..Len(tag) :
        /\ tag[i] = "omitempty"
        /\ tag[i - 1] = ","
        /\ i = Len(tag) \/ tag[i + 1] = ","

\* C11: every field emitted from a line of the fixed shape whose tag flags hold
\* 'omitempty' has optional = true, wherever the marker stands among the flags
\* and whatever other flags are there.
C11_OmitemptyMeansOptional ==
    \A n \in DOMAIN structs :
        LET lines  == SelectSeq(BodyOf(n), YieldsField)
            fields == structs[n].fields
        IN  /\ Len(fields) = Len(lines)
            /\ \A i \in 1..Len(lines) :
                  (IsTaggedLine(lines[i]) /\ HasOmitFlag(lines[i].json_tag)) =>
                      /\ fields[i].name = lines[i].field_name
                      /\ fields[i].optional

\* GitOpsPolicySpec was parsed from a line whose marker is followed by another
\* flag and a line whose marker comes last, after another flag
C11_Witness ==
    /\ "GitOpsPolicySpec" \in DOMAIN structs
    /\ \E i, j \in 1..Len(BodyOf("GitOpsPolicySpec")) :
          LET a == BodyOf("GitOpsPolicySpec")[i]
              b == BodyOf("GitOpsPolicySpec")[j]
          IN  /\ IsTaggedLine(a) /\ IsTaggedLine(b)
              /\ HasOmitFlag(a.json_tag) /\ a.json_tag[Len(a.json_tag)] # "omitempty"
              /\ HasOmitFlag(b.json_tag) /\ Len(b.json_tag) >= 5
              /\ b.json_tag[Len(b.json_tag)] = "omitempty"
    /\ Len(structs["GitOpsPolicySpec"].fields) = 2
    /\ \A i \in 1..2 : structs["GitOpsPolicySpec"].fields[i].optional

\* the wire names of the fields of a stored declaration that extract_schema
\* appends to valid_policy_fields
Appended(struct_name) ==
    IF struct_name \in DOMAIN structs
    THEN SelectSeq(structs[struct_name].fields,
                   LAMBDA f : f.json_name # "" /\ f.json_name # "-")
    ELSE <<>>

NamesOf(fields) == [i \in 1..Len(fields) |-> fields[i].json_name]

\* C13 (as claimed): when extract_schema returns, team_only_fields holds the
\* appended base fields whose own team_only flag is set, followed by the appended
\* extension fields whose team_only flag is set or whose description contains
\* the phrase parse_go_struct uses to set team_only ('team polic').
C13_RestrictedByFlagOrSamePhrase ==
    spc = "done" =>
        team_only_fields =
            NamesOf(SelectSeq(Appended("PolicySpec"), LAMBDA f : f.team_only))
            \o NamesOf(SelectSeq(Appended("GitOpsPolicySpec"),
                                 LAMBDA f : f.team_only \/ ContainsTeamPolic(f.description)))

\* C13 (amended): when extract_schema returns, team_only_fields holds the
\* appended base fields whose own team_only flag is set, followed by the appended
\* extension fields whose team_only flag is set or whose description, lower-cased,
\* contains 'team': a wider marker than the 'team polic' of parse_go_struct.
C13_RestrictedByFlagOrTeamWord ==
    spc = "done" =>
        team_only_fields =
            NamesOf(SelectSeq(Appended("PolicySpec"), LAMBDA f : f.team_only))
            \o NamesOf(SelectSeq(Appended("GitOpsPolicySpec"),
                                 LAMBDA f : f.team_only \/ ContainsTeam(f.description)))

\* the base declaration held a flagged field and an unflagged field whose
\* description mentions a team, the extension an unflagged field whose
\* description mentions a team: the first and the last were restricted
C13_Witness ==
    /\ spc = "done"
    /\ \E f \in Range(Appended("PolicySpec")) : f.team_only
    /\ \E f \in Range(Appended("PolicySpec")) :
          ~f.team_only /\ ContainsTeam(f.description)
    /\ \E f \in Range(Appended("GitOpsPolicySpec")) :
          ~f.team_only /\ ContainsTeam(f.description)
    /\ Len(team_only_fields) = 2
    /\ Len(valid_policy_fields) = 3

-----------------------------------------------------------------------------
(* fetch_stig.py: the XCCDF document as xml.etree.ElementTree presents it.   *)
(* Text and attribute values are sequences of pieces, so that str.replace    *)
(* and str.lower act on them; Join gives the string.                         *)

\* the text of an element that has some
Text(pieces) == [pieces |-> pieces]

\* an Element: tag, attribute dict, text (None when the element is empty),
\* child elements in document order
Element(tag, attrib, text, children) ==
    [tag |-> tag, attrib |-> attrib, text |-> text, children |-> children]

\* Element.get(key, default)
AttrGet(elem, key, default) ==
    IF key \in DOMAIN elem.attrib THEN elem.attrib[key] ELSE default

\* Element.iter(): the element and its descendants in document order
RECURSIVE Iter(_)
Iter(elem) ==
    <<elem>> \o Concat([i \in 1..Len(elem.children) |-> Iter(elem.children[i])])

\* Element.findall('.//tag'): the descendants with that tag, in document order
FindAll(elem, tag) ==
    SelectSeq(Concat([i \in 1..Len(elem.children) |-> Iter(elem.children[i])]),
              LAMBDA d : d.tag = tag)

\* Element.find('.//tag'): the first such descendant, or None
FindDeep(elem, tag) ==
    IF FindAll(elem, tag) = <<>> THEN None ELSE Head(FindAll(elem, tag))

\* Element.find('tag'): the first child with that tag, or None
Find(elem, tag) ==
    IF SelectSeq(elem.children, LAMBDA d : d.tag = tag) = <<>> THEN None
    ELSE Head(SelectSeq(elem.children, LAMBDA d : d.tag = tag))

\* str.replace(old, new) on a string given by its pieces
Replace(pieces, old, new) ==
    [i \in 1..Len(pieces) |-> IF pieces[i] = old THEN new ELSE pieces[i]]

\* elem.text or ''
TextOrEmpty(elem) == IF IsNone(elem.text) THEN "" ELSE Join(elem.text.pieces)

\* the markup a description's text is made of
IsOpenTag(piece) == piece \in {"<VulnDiscussion>", "<FalsePositives>"}
IsCloseTag(piece) == piece \in {"</VulnDiscussion>", "</FalsePositives>"}
CloseOf(piece) == IF piece = "<VulnDiscussion>" THEN "</VulnDiscussion>"
                  ELSE "</FalsePositives>"
IsCharData(piece) == ~IsOpenTag(piece) /\ ~IsCloseTag(piece) /\ piece # "&"

\* ET.fromstring(f"<root>{text}</root>") succeeds: tags nest and close, and no
\* bare '&' occurs; open is the stack of end tags still expected
RECURSIVE WellFormed(_, _)
WellFormed(pieces, open) ==
    IF pieces = <<>> THEN open = <<>>
    ELSE LET p == Head(pieces)
         IN  CASE p = "&"       -> FALSE
               [] IsOpenTag(p)  -> WellFormed(Tail(pieces), <<CloseOf(p)>> \o open)
               [] IsCloseTag(p) -> /\ open # <<>>
                                   /\ Head(open) = p
                                   /\ WellFormed(Tail(pieces), Tail(open))
               [] OTHER         -> WellFormed(Tail(pieces), open)

\* the character data an element starts with (its .text), None when it has none
RECURSIVE LeadingText(_)
LeadingText(pieces) ==
    IF pieces = <<>> \/ ~IsCharData(Head(pieces)) THEN <<>>
    ELSE <<Head(pieces)>> \o LeadingText(Tail(pieces))

\* desc_xml.find('.//VulnDiscussion') of a well-formed text: None, or the
\* element, of which only the text is read
FindVulnDiscussion(pieces) ==
    IF \E i \in 1..Len(pieces) : pieces[i] = "<VulnDiscussion>"
    THEN LET i == CHOOSE j \in 1..Len(pieces) :
                     /\ pieces[j] = "<VulnDiscussion>"
                     /\ \A h \in 1..(j - 1) : pieces[h] # "<VulnDiscussion>"
             t == LeadingText(SubSeq(pieces, i + 1, Len(pieces)))
         IN  [text |-> IF t = <<>> THEN None ELSE Text(t)]
    ELSE None

-----------------------------------------------------------------------------
(* fetch_stig.py: parse_disa_xccdf *)

\* benchmark['title'].lower().replace(' ', '-').replace('_', '-')
Slug(title) ==
    Join(Replace(Replace([i \in 1..Len(title) |-> Lower(title[i])], " ", "-"),
                 "_", "-"))

\* title.text if title is not None else '' (None when the element is empty)
TextIfFound(elem) ==
    IF IsNone(elem) THEN ""
    ELSE IF IsNone(elem.text) THEN None ELSE Join(elem.text.pieces)

\* the benchmark dict with its slug, before the loop over the groups
Metadata(doc) ==
    LET title   == FindDeep(doc, "xccdf:title")
        version == FindDeep(doc, "xccdf:version")
    IN  [id          |-> Join(AttrGet(doc, "id", <<>>)),
         benchmarkId |-> Join(Replace(AttrGet(doc, "id", <<>>),
                                      "xccdf_mil.disa.stig_benchmark_", "")),
         slug        |-> IF IsNone(title) \/ IsNone(title.text)
                            \/ Join(title.text.pieces) = ""
                         THEN "" ELSE Slug(title.text.pieces),
         title       |-> TextIfFound(title),
         version     |-> TextIfFound(version),
         groups      |-> <<>>]

\* the value ruleVulnDiscussion gets from the description element
VulnDiscussion(desc) ==
    IF IsNone(desc) \/ IsNone(desc.text) \/ Join(desc.text.pieces) = "" THEN ""
    ELSE IF WellFormed(desc.text.pieces, <<>>)
         THEN LET vuln == FindVulnDiscussion(desc.text.pieces)
              IN  IF IsNone(vuln) THEN "" ELSE TextOrEmpty(vuln)
         ELSE Join(desc.text.pieces)

\* the value a key gets from an optional element: elem.text or '', '' when absent
SubField(elem) == IF IsNone(elem) THEN "" ELSE TextOrEmpty(elem)

\* rule_data as it is when appended
RuleData(group, rule) ==
    LET version_elem == Find(rule, "xccdf:version")
        rule_data ==
            [groupId            |-> Join(Replace(AttrGet(group, "id", <<>>),
                                                 "xccdf_mil.disa.stig_group_", "")),
             title              |-> "",
             ruleId             |-> Join(AttrGet(rule, "id", <<>>)),
             ruleSeverity       |-> Join(AttrGet(rule, "severity", <<"medium">>)),
             ruleWeight         |-> Join(AttrGet(rule, "weight", <<"10.0">>)),
             ruleTitle          |-> SubField(Find(rule, "xccdf:title")),
             ruleVulnDiscussion |-> VulnDiscussion(Find(rule, "xccdf:description")),
             ruleCheckContent   |-> SubField(FindDeep(rule, "xccdf:check-content")),
             ruleFixText        |-> SubField(Find(rule, "xccdf:fixtext")),
             ruleIdent          |-> SubField(Find(rule, "xccdf:ident"))]
    IN  IF IsNone(version_elem) THEN rule_data
        ELSE [ruleVersion |-> TextOrEmpty(version_elem)] @@ rule_data

\* benchmark['groups'].append(rule_data)
AppendRule_DedupByRuleId(groups, rule_data) ==
    IF \E i \in 1..Len(groups) : groups[i].ruleId = rule_data.ruleId
    THEN groups ELSE Append(groups, rule_data)

AppendRule(groups, rule_data) == Append(groups, rule_data)

-----------------------------------------------------------------------------
(* XCCDF documents *)

\* bound: Group elements in a document, nested ones included
MaxGroups == 3

NoAttrib == [k \in {} |-> <<>>]
Leaf(tag, text) == Element(tag, NoAttrib, text, <<>>)

\* a rule with every attribute and every sub-element
RuleFull ==
    Element("xccdf:Rule",
            [id |-> <<"SV-1_rule">>, severity |-> <<"high">>, weight |-> <<"5.0">>],
            None,
            << Leaf("xccdf:version", Text(<<"WN11-01">>)),
               Leaf("xccdf:title", Text(<<"Audit">>)),
               Leaf("xccdf:description",
                    Text(<<"<VulnDiscussion>", "risk", "</VulnDiscussion>",
                           "<FalsePositives>", "</FalsePositives>">>)),
               Leaf("xccdf:ident", Text(<<"CCI-1">>)),
               Leaf("xccdf:fixtext", Text(<<"set">>)),
               Element("xccdf:check", NoAttrib, None,
                       <<Leaf("xccdf:check-content", Text(<<"run">>))>>) >>)

\* a rule with no attribute and no sub-element
RuleBare == Element("xccdf:Rule", NoAttrib, None, <<>>)

\* the id of RuleFull again; an empty title, a description that is not XML
RuleOdd ==
    Element("xccdf:Rule", [id |-> <<"SV-1_rule">>], None,
            << Leaf("xccdf:title", None),
               Leaf("xccdf:description", Text(<<"a", "&", "b">>)),
               Leaf("xccdf:ident", Text(<<"CCI-2">>)) >>)

\* a description without markup, an empty version, a discussion left empty
RulePlain ==
    Element("xccdf:Rule", [id |-> <<"SV-2_rule">>, weight |-> <<"1.0">>], None,
            << Leaf("xccdf:version", None),
               Leaf("xccdf:description", Text(<<"plain">>)),
               Leaf("xccdf:fixtext", None) >>)

RuleEmptyDiscussion ==
    Element("xccdf:Rule", [id |-> <<"SV-3_rule">>, severity |-> <<"low">>], None,
            << Leaf("xccdf:description",
                    Text(<<"<VulnDiscussion>", "</VulnDiscussion>">>)),
               Leaf("xccdf:version", Text(<<"WN11-03">>)) >>)

Group(id, children) == Element("xccdf:Group", [id |-> id], None, children)

\* groups without a nested group: no rule, one rule, two rules, a Rule element
\* of another namespace
LeafGroups ==
    { Group(<<"xccdf_mil.disa.stig_group_", "V-0">>,
            <<Leaf("xccdf:title", Text(<<"G0">>))>>),
      Group(<<"xccdf_mil.disa.stig_group_", "V-1">>,
            <<Leaf("xccdf:title", Text(<<"G1">>)), RuleFull>>),
      Element("xccdf:Group", NoAttrib, None, <<RuleBare>>),
      Group(<<"V-3">>, <<RuleOdd, RuleFull>>),
      Group(<<"xccdf_mil.disa.stig_group_", "V-4">>, <<RulePlain>>),
      Group(<<"xccdf_mil.disa.stig_group_", "V-5">>, <<RuleEmptyDiscussion>>),
      Group(<<"xccdf_mil.disa.stig_group_", "V-6">>,
            <<Element("Rule", [id |-> <<"SV-6_rule">>], None, <<>>)>>) }

\* the groups that occur inside another group: one without a rule, one with
NestedGroups ==
    { Group(<<"xccdf_mil.disa.stig_group_", "V-7">>, <<>>),
      Group(<<"xccdf_mil.disa.stig_group_", "V-8">>,
            <<Leaf("xccdf:title", Text(<<"G8">>)), RulePlain>>) }

\* a group holding a group, with or without a rule of its own after it
Nest(inner, own) ==
    Group(<<"xccdf_mil.disa.stig_group_", "V-9">>,
          <<inner>> \o (IF own THEN <<RuleBare>> ELSE <<>>))

\* the sequences of top-level groups that hold n Group elements
RECURSIVE GroupsOf(_)
GroupsOf(n) ==
    IF n = 0 THEN {<<>>}
    ELSE {<<g>> \o rest : g \in LeafGroups, rest \in GroupsOf(n - 1)}
         \cup (IF n < 2 THEN {}
               ELSE {<<Nest(g, own)>> \o rest :
                        g \in NestedGroups, own \in BOOLEAN, rest \in GroupsOf(n - 2)})

\* what precedes the groups: nothing, title and version, an empty title
Headers ==
    { <<>>,
      << Leaf("xccdf:title", Text(<<"macOS", " ", "STIG", "_", "15">>)),
         Leaf("xccdf:version", Text(<<"1">>)) >>,
      << Leaf("xccdf:title", None) >> }

Benchmark(header, groups) ==
    Element("xccdf:Benchmark",
            [id |-> <<"xccdf_mil.disa.stig_benchmark_", "macOS_15">>],
            None, header \o groups)

-----------------------------------------------------------------------------
(* parse_disa_xccdf as a state machine: one step per loop iteration *)

Groups == FindAll(root, "xccdf:Group")

XccdfInit ==
    /\ xpc = "parse"
    /\ \E n \in 0..MaxGroups :
          \E header \in Headers, groups \in GroupsOf(n) :
              root = Benchmark(header, groups)
    /\ gk = 1
    /\ benchmark = <<>>
    /\ pc = "idle"
    /\ file = NoFile
    /\ schema = NoSchema
    /\ quiet = FALSE
    /\ docs = <<>>
    /\ di = 1
    /\ ei = 1
    /\ policy_count = 0
    /\ all_errors = <<>>
    /\ exit_code = Running
    /\ stdout = <<>>
    /\ spc = "idle"
    /\ repo = <<>>
    /\ fi = 1
    /\ structs = <<>>
    /\ valid_policy_fields = <<>>
    /\ team_only_fields = <<>>
    /\ warned = <<>>

\* root = tree.getroot(); benchmark = {...}; slug
ExtractMetadata ==
    /\ xpc = "parse"
    /\ benchmark' = Metadata(root)
    /\ xpc' = "groups"
    /\ UNCHANGED <<root, gk>>
    /\ UNCHANGED <<vvars, svars>>

\* if rule is None: continue
GroupWithoutRule ==
    /\ xpc = "groups"
    /\ gk <= Len(Groups)
    /\ IsNone(Find(Groups[gk], "xccdf:Rule"))
    /\ gk' = gk + 1
    /\ UNCHANGED <<xpc, root, benchmark>>
    /\ UNCHANGED <<vvars, svars>>

\* rule_data = {...}; ...; benchmark['groups'].append(rule_data)
GroupWithRule ==
    /\ xpc = "groups"
    /\ gk <= Len(Groups)
    /\ ~IsNone(Find(Groups[gk], "xccdf:Rule"))
    /\ benchmark' = [benchmark EXCEPT !.groups =
                        AppendRule(@, RuleData(Groups[gk],
                                               Find(Groups[gk], "xccdf:Rule")))]
    /\ gk' = gk + 1
    /\ UNCHANGED <<xpc, root>>
    /\ UNCHANGED <<vvars, svars>>

\* return benchmark
ReturnBenchmark ==
    /\ xpc = "groups"
    /\ gk > Len(Groups)
    /\ xpc' = "done"
    /\ UNCHANGED <<root, gk, benchmark>>
    /\ UNCHANGED <<vvars, svars>>

XccdfNext ==
    \/ ExtractMetadata
    \/ GroupWithoutRule
    \/ GroupWithRule
    \/ ReturnBenchmark

XccdfSpec == XccdfInit /\ [][XccdfNext]_vars

-----------------------------------------------------------------------------
(* Properties of parse_disa_xccdf *)

\* the positions of the elements below elem: the child indices leading to each
RECURSIVE PathsOf(_)
PathsOf(elem) ==
    UNION { {<<i>>} \cup {<<i>> \o q : q \in PathsOf(elem.children[i])} :
            i \in 1..Len(elem.children) }

RECURSIVE ElemAt(_, _)
ElemAt(elem, path) ==
    IF path = <<>> THEN elem ELSE ElemAt(elem.children[Head(path)], Tail(path))

\* document order: an element comes before what it holds and before whatever
\* starts after it
Before(p, q) ==
    \E k \in 1..Len(q) :
        /\ \A h \in 1..(k - 1) : h <= Len(p) /\ p[h] = q[h]
        /\ Len(p) >= k - 1
        /\ Len(p) = k - 1 \/ p[k] < q[k]

HasRule(group) ==
    \E i \in 1..Len(group.children) : group.children[i].tag = "xccdf:Rule"

\* the groups of the document that hold a rule
GroupsWithRule ==
    {p \in PathsOf(root) : ElemAt(root, p).tag = "xccdf:Group" /\ HasRule(ElemAt(root, p))}

\* C12: when parse_disa_xccdf returns, benchmark['groups'] holds exactly one
\* record per group that has a rule sub-element, in the document order of those
\* groups: two rules with one id give two records, a document without groups
\* gives [], and a group without a rule adds nothing and moves nothing.
C12_OneRecordPerGroupWithRule ==
    xpc = "done" =>
        /\ Len(benchmark.groups) = Cardinality(GroupsWithRule)
        /\ \A p \in GroupsWithRule :
              LET i     == Cardinality({q \in GroupsWithRule : Before(q, p)}) + 1
                  group == ElemAt(root, p)
              IN  benchmark.groups[i] = RuleData(group, Find(group, "xccdf:Rule"))

\* three groups were parsed: the middle one has no rule, the outer two hold
\* rules of the same id and gave the two records
C12_Witness ==
    /\ xpc = "done"
    /\ Len(Groups) = 3
    /\ ~HasRule(Groups[2])
    /\ Len(benchmark.groups) = 2
    /\ benchmark.groups[1].ruleId = benchmark.groups[2].ruleId
    /\ benchmark.groups[1].groupId # benchmark.groups[2].groupId

\* a document without groups was parsed
C12_WitnessNoGroups ==
    /\ xpc = "done"
    /\ Groups = <<>>
    /\ benchmark.groups = <<>>

\* the keys a rule record is to carry
RuleKeys ==
    {"groupId", "ruleId", "ruleSeverity", "ruleWeight", "ruleTitle", "ruleVersion",
     "ruleVulnDiscussion", "ruleCheckContent", "ruleFixText", "ruleIdent"}

HasChild(elem, tag) == \E i \in 1..Len(elem.children) : elem.children[i].tag = tag

HasDescendant(elem, tag) == \E p \in PathsOf(elem) : ElemAt(elem, p).tag = tag

\* the rule a record was made from: the first Rule child of its group
RuleOf(group) ==
    group.children[CHOOSE i \in 1..Len(group.children) :
                      /\ group.children[i].tag = "xccdf:Rule"
                      /\ \A h \in 1..(i - 1) : group.children[h].tag # "xccdf:Rule"]

\* C14 (as claimed): every record of benchmark['groups'] carries every rule
\* sub-field, whichever sub-elements its rule lacks: a sub-field whose
\* sub-element is absent is '' (ruleSeverity 'medium', ruleWeight '10.0' when the
\* attribute is absent), and an absent sub-element leaves the others' values alone.
C14_EverySubFieldCarried ==
    xpc = "done" =>
        \A i \in 1..Len(benchmark.groups) :
            LET r    == benchmark.groups[i]
                rule == RuleOf(SelectSeq(Groups, HasRule)[i])
            IN  /\ RuleKeys \subseteq DOMAIN r
                /\ "id" \notin DOMAIN rule.attrib => r.ruleId = ""
                /\ "severity" \notin DOMAIN rule.attrib => r.ruleSeverity = "medium"
                /\ "weight" \notin DOMAIN rule.attrib => r.ruleWeight = "10.0"
                /\ ~HasChild(rule, "xccdf:title") => r.ruleTitle = ""
                /\ ~HasChild(rule, "xccdf:version") => r.ruleVersion = ""
                /\ ~HasChild(rule, "xccdf:description") => r.ruleVulnDiscussion = ""
                /\ ~HasDescendant(rule, "xccdf:check-content") => r.ruleCheckContent = ""
                /\ ~HasChild(rule, "xccdf:fixtext") => r.ruleFixText = ""
                /\ ~HasChild(rule, "xccdf:ident") => r.ruleIdent = ""
                /\ HasChild(rule, "xccdf:title") =>
                      r.ruleTitle = TextOrEmpty(Find(rule, "xccdf:title"))
                /\ HasChild(rule, "xccdf:version") =>
                      r.ruleVersion = TextOrEmpty(Find(rule, "xccdf:version"))
                /\ HasChild(rule, "xccdf:fixtext") =>
                      r.ruleFixText = TextOrEmpty(Find(rule, "xccdf:fixtext"))
                /\ HasChild(rule, "xccdf:ident") =>
                      r.ruleIdent = TextOrEmpty(Find(rule, "xccdf:ident"))

====
